---- MODULE Spec2Model ----
(***************************************************************************)
(* Model of src/src/ffmpeg_core.c: the global media session g_state with   *)
(* its mutex, the asynchronous task queue g_task_queue with its mutex and  *)
(* condition variable, the worker thread, and the public operations        *)
(* called from caller threads and from callbacks on the worker thread.     *)
(* One action is one atomic step of one thread; a step ends where the      *)
(* thread takes or releases a mutex, waits, or hands control to a          *)
(* callback.                                                               *)
(***************************************************************************)
EXTENDS Integers, Sequences, FiniteSets, TLC

(***************************************************************************)
(* Bounds of the model.                                                    *)
(***************************************************************************)
\* Successful and failed API calls made by all threads together.
MaxCalls == 3
\* Largest request identifier handed out (caps next_request_id).
MaxTasks == 2

(***************************************************************************)
(* The media the container backend can open.  A media is a list of         *)
(* streams and a list of packets in container order; pts is in the units   *)
(* of the stream's time base.                                              *)
(***************************************************************************)
Medias == {1, 2}
\* The media a single client opens in SeqSpec: media 3, 4 and 5 in
\* addition.
SeqMedias == Medias \cup {3, 4, 5}

\* Media 1: stream 0 video (10 fps, time base 1/10), stream 1 audio.
\* Media 2: stream 0 audio only, its codec reports no frame size.
\* Media 3: stream 0 video only, variable frame rate: frames at 0, 100 and
\* 600 ms, so that avg_frame_rate is 10/3.
\* Media 4: stream 0 video whose avg_frame_rate is unknown (0/0), stream 1
\* audio whose codec context reports a sample rate of 0.
\* Media 5: stream 0 video only, 10 fps, whose first frame is presented at
\* 200 ms (a stream with a start time): frames at 200, 300 and 400 ms.
\* fr_num/fr_den is avg_frame_rate; sample_rate and frame_size are the
\* values the stream's codec context reports once opened.
Streams(m) ==
  IF m = 1 THEN << [type |-> "video", tb_num |-> 1, tb_den |-> 10,
                    fr_num |-> 10, fr_den |-> 1,
                    sample_rate |-> 0, frame_size |-> 0],
                   [type |-> "audio", tb_num |-> 1, tb_den |-> 10,
                    fr_num |-> 0, fr_den |-> 0,
                    sample_rate |-> 10000, frame_size |-> 1000] >>
  ELSE IF m = 2
           THEN << [type |-> "audio", tb_num |-> 1, tb_den |-> 10,
                    fr_num |-> 0, fr_den |-> 0,
                    sample_rate |-> 10000, frame_size |-> 0] >>
  ELSE IF m = 3
           THEN << [type |-> "video", tb_num |-> 1, tb_den |-> 10,
                    fr_num |-> 10, fr_den |-> 3,
                    sample_rate |-> 0, frame_size |-> 0] >>
  ELSE IF m = 5
           THEN << [type |-> "video", tb_num |-> 1, tb_den |-> 10,
                    fr_num |-> 10, fr_den |-> 1,
                    sample_rate |-> 0, frame_size |-> 0] >>
           ELSE << [type |-> "video", tb_num |-> 1, tb_den |-> 10,
                    fr_num |-> 0, fr_den |-> 0,
                    sample_rate |-> 0, frame_size |-> 0],
                   [type |-> "audio", tb_num |-> 1, tb_den |-> 10,
                    fr_num |-> 0, fr_den |-> 0,
                    sample_rate |-> 0, frame_size |-> 1000] >>

\* si: stream index (0-based, as in the container), key: a seek point.
Packets(m) ==
  IF m = 1 THEN << [si |-> 0, pts |-> 0, key |-> TRUE],
                   [si |-> 1, pts |-> 0, key |-> TRUE],
                   [si |-> 0, pts |-> 1, key |-> FALSE],
                   [si |-> 1, pts |-> 1, key |-> TRUE],
                   [si |-> 0, pts |-> 2, key |-> TRUE] >>
  ELSE IF m = 2
           THEN << [si |-> 0, pts |-> 0, key |-> TRUE],
                   [si |-> 0, pts |-> 1, key |-> TRUE] >>
  ELSE IF m = 3
           THEN << [si |-> 0, pts |-> 0, key |-> TRUE],
                   [si |-> 0, pts |-> 1, key |-> FALSE],
                   [si |-> 0, pts |-> 6, key |-> TRUE] >>
  ELSE IF m = 5
           THEN << [si |-> 0, pts |-> 2, key |-> TRUE],
                   [si |-> 0, pts |-> 3, key |-> FALSE],
                   [si |-> 0, pts |-> 4, key |-> TRUE] >>
           ELSE << [si |-> 0, pts |-> 0, key |-> TRUE],
                   [si |-> 1, pts |-> 0, key |-> TRUE] >>

NbStreams(m) == Len(Streams(m))
\* streams[i] of the container, i 0-based.
Stream(m, i) == Streams(m)[i + 1]

None == "none"

(***************************************************************************)
(* FFmpegState (ffmpeg_core.h:32-50).  fmt_ctx is 0 (NULL) or the media    *)
(* the container was opened from; a codec context is 0 (NULL) or the media *)
(* whose stream it was allocated for; the other handles are TRUE when      *)
(* allocated.  pos is the container's read position: the number of         *)
(* packets already read.                                                   *)
(***************************************************************************)
NullState ==
  [ fmt_ctx |-> 0, video_codec_ctx |-> 0, audio_codec_ctx |-> 0,
    sws_ctx |-> FALSE, swr_ctx |-> FALSE,
    video_frame |-> FALSE, video_frame_rgba |-> FALSE,
    audio_frame |-> FALSE, audio_frame_converted |-> FALSE,
    work_packet |-> FALSE, video_buffer |-> FALSE,
    video_stream_idx |-> -1, audio_stream_idx |-> -1, pos |-> 0 ]

\* ffmpeg_stop, the body between lock and unlock: every handle that is set
\* is freed and nulled, both stream indices become -1.
StopBody(s) ==
  [ s EXCEPT !.video_codec_ctx = 0, !.audio_codec_ctx = 0,
             !.sws_ctx = FALSE, !.swr_ctx = FALSE,
             !.video_frame = FALSE, !.video_frame_rgba = FALSE,
             !.video_buffer = FALSE,
             !.audio_frame = FALSE, !.audio_frame_converted = FALSE,
             !.work_packet = FALSE, !.fmt_ctx = 0, !.pos = 0,
             !.video_stream_idx = -1, !.audio_stream_idx = -1 ]

(***************************************************************************)
(* ffmpeg_open_media, steps 1 to 4, run with the mutex held.  fault names  *)
(* the backend call that fails in this run, if any.                        *)
(***************************************************************************)
OpenFaults ==
  { "none", "open_input", "find_stream_info", "no_decoder",
    "video_alloc", "video_setup", "audio_alloc", "audio_setup",
    "packet_alloc" }

\* The video branch of the stream loop for stream i (lines 550-627).
\* Result: [s, abort]; abort is TRUE on the fatal return -3.
OpenVideoStream(s, m, i, fault) ==
  LET s1 == [s EXCEPT !.video_stream_idx = i, !.video_codec_ctx = m] IN
  IF fault = "video_alloc"
    THEN [s |-> [s EXCEPT !.video_stream_idx = i, !.video_codec_ctx = 0,
                          !.fmt_ctx = 0],
          abort |-> TRUE]
  ELSE IF fault = "video_setup"
    THEN [s |-> [s1 EXCEPT !.video_codec_ctx = 0, !.video_stream_idx = -1,
                           !.video_frame = FALSE, !.video_frame_rgba = FALSE,
                           !.video_buffer = FALSE, !.sws_ctx = FALSE],
          abort |-> FALSE]
  ELSE [s |-> [s1 EXCEPT !.video_frame = TRUE, !.video_frame_rgba = TRUE,
                         !.video_buffer = TRUE, !.sws_ctx = TRUE],
        abort |-> FALSE]

\* The audio branch of the stream loop for stream i (lines 628-712).
OpenAudioStream(s, m, i, fault) ==
  LET s1 == [s EXCEPT !.audio_stream_idx = i, !.audio_codec_ctx = m] IN
  IF fault = "audio_alloc"
    THEN [s |-> [s EXCEPT !.audio_stream_idx = i, !.audio_codec_ctx = 0,
                          !.fmt_ctx = 0],
          abort |-> TRUE]
  ELSE IF fault = "audio_setup"
    THEN [s |-> [s1 EXCEPT !.audio_codec_ctx = 0, !.audio_stream_idx = -1,
                           !.audio_frame = FALSE,
                           !.audio_frame_converted = FALSE,
                           !.swr_ctx = FALSE],
          abort |-> FALSE]
  ELSE [s |-> [s1 EXCEPT !.audio_frame = TRUE,
                         !.audio_frame_converted = TRUE, !.swr_ctx = TRUE],
        abort |-> FALSE]

\* The stream loop (lines 543-713) from stream i on.
RECURSIVE OpenStreams(_, _, _, _)
OpenStreams(s, m, i, fault) ==
  IF i >= NbStreams(m) THEN [s |-> s, abort |-> FALSE]
  ELSE IF fault = "no_decoder" THEN OpenStreams(s, m, i + 1, fault)
  ELSE IF Stream(m, i).type = "video" /\ s.video_stream_idx = -1
    THEN LET r == OpenVideoStream(s, m, i, fault) IN
         IF r.abort THEN r ELSE OpenStreams(r.s, m, i + 1, fault)
  ELSE IF Stream(m, i).type = "audio" /\ s.audio_stream_idx = -1
    THEN LET r == OpenAudioStream(s, m, i, fault) IN
         IF r.abort THEN r ELSE OpenStreams(r.s, m, i + 1, fault)
  ELSE OpenStreams(s, m, i + 1, fault)

\* Result: [s, ret, stop]: the session, the return code, and whether the
\* function goes on to call ffmpeg_stop after unlocking (line 719).
OpenBody(s, m, fault) ==
  IF fault = "open_input"
    \* avformat_open_input frees the context it was given and nulls it
    THEN [s |-> [s EXCEPT !.fmt_ctx = 0], ret |-> -2, stop |-> FALSE]
  ELSE IF fault = "find_stream_info"
    THEN [s |-> [s EXCEPT !.fmt_ctx = 0], ret |-> -2, stop |-> FALSE]
  ELSE
    LET s0 == [s EXCEPT !.fmt_ctx = m, !.pos = 0,
                        !.video_stream_idx = -1, !.audio_stream_idx = -1]
        r  == OpenStreams(s0, m, 0, fault)
    IN IF r.abort
         THEN [s |-> r.s, ret |-> -3, stop |-> FALSE]
       ELSE IF fault = "packet_alloc"
         THEN [s |-> [r.s EXCEPT !.work_packet = FALSE], ret |-> -3,
               stop |-> TRUE]
       ELSE [s |-> [r.s EXCEPT !.work_packet = TRUE], ret |-> 0,
             stop |-> FALSE]

(***************************************************************************)
(* The seek-decode primitive.                                              *)
(***************************************************************************)
\* pts * 1000 * time_base.num / time_base.den (lines 83, 206, 242).
PtsMs(pts, st) == (pts * 1000 * st.tb_num) \div st.tb_den

\* av_q2d(avg_frame_rate) > 0, guarded by den != 0 (lines 348-354).
FpsKnown(st) == st.fr_den /= 0 /\ st.fr_num > 0

\* (int64_t)((index / fps) * 1000.0) for fps = fr_num / fr_den (line 355).
IndexToMs(index, st) == (index * 1000 * st.fr_den) \div st.fr_num

\* (int64_t)(frame_ts_ms * fps / 1000.0), 0 when fps is unknown
\* (lines 85-92).
FrameId(ts_ms, st) ==
  IF FpsKnown(st) THEN (ts_ms * st.fr_num) \div (st.fr_den * 1000) ELSE 0

\* The stream av_seek_frame(ctx, -1, ...) seeks on: the first video stream
\* if there is one, else stream 0.
DefaultStream(m) ==
  LET vs == { i \in 0..(NbStreams(m) - 1) : Stream(m, i).type = "video" }
  IN IF vs = {} THEN 0 ELSE CHOOSE i \in vs : \A j \in vs : i <= j

\* av_seek_frame with AVSEEK_FLAG_BACKWARD: the read position of the last
\* seek point of the default stream at or before the target, else the start.
SeekPos(m, target_ms) ==
  LET d  == DefaultStream(m)
      ks == { k \in 1..Len(Packets(m)) :
                /\ Packets(m)[k].si = d
                /\ Packets(m)[k].key
                /\ PtsMs(Packets(m)[k].pts, Stream(m, d)) <= target_ms }
  IN IF ks = {} THEN 0 ELSE (CHOOSE k \in ks : \A j \in ks : j <= k) - 1

\* seek_to_frame_before_ts (lines 166-183).  seekOk: av_seek_frame succeeds.
\* Result: [s, ret].
seek_to_frame_before_ts(s, target_ts_ms, seekOk) ==
  IF s.fmt_ctx = 0 THEN [s |-> s, ret |-> -1]
  ELSE IF ~seekOk THEN [s |-> s, ret |-> -1]
  ELSE [s |-> [s EXCEPT !.pos = SeekPos(s.fmt_ctx, target_ts_ms)], ret |-> 0]

NoFrame == [pts_ms |-> -1, frame_id |-> -1]

\* A decode loop that hands out the first frame of the stream, whatever its
\* time.
RECURSIVE FirstOfStream(_, _, _, _)
FirstOfStream(m, pos, si, target_ts_ms) ==
  IF pos >= Len(Packets(m)) THEN 0
  ELSE IF Packets(m)[pos + 1].si = si THEN pos + 1
  ELSE FirstOfStream(m, pos + 1, si, target_ts_ms)

\* A decode loop that, at the end of the container, falls back on the last
\* frame of the stream.
ClampToLast(m, pos, si, target_ts_ms) ==
  LET ofStream == { k \in 1..Len(Packets(m)) : Packets(m)[k].si = si }
      hits == { k \in ofStream :
                  /\ k > pos
                  /\ PtsMs(Packets(m)[k].pts, Stream(m, si)) >= target_ts_ms }
  IN IF hits /= {} THEN CHOOSE k \in hits : \A j \in hits : k <= j
     ELSE IF ofStream = {} THEN 0
     ELSE CHOOSE k \in ofStream : \A j \in ofStream : j <= k

\* The index (1-based) of the first packet after position pos that belongs
\* to stream si and whose frame time is at or after the target; 0 when the
\* container is read to its end without one.
RECURSIVE FirstAtOrAfter(_, _, _, _)
FirstAtOrAfter(m, pos, si, target_ts_ms) ==
  IF pos >= Len(Packets(m)) THEN 0
  ELSE LET p == Packets(m)[pos + 1] IN
       IF p.si = si /\ PtsMs(p.pts, Stream(m, si)) >= target_ts_ms
         THEN pos + 1
         ELSE FirstAtOrAfter(m, pos + 1, si, target_ts_ms)

\* create_video_frame_copy (lines 68-122) for the frame of packet k.
create_video_frame_copy(s, k) ==
  LET st == Stream(s.fmt_ctx, s.video_stream_idx)
      ts == PtsMs(Packets(s.fmt_ctx)[k].pts, st)
  IN [pts_ms |-> ts, frame_id |-> FrameId(ts, st)]

\* create_audio_frame_copy (lines 124-164): frame_id is always 0.
create_audio_frame_copy(s, k) ==
  LET st == Stream(s.fmt_ctx, s.audio_stream_idx)
  IN [pts_ms |-> PtsMs(Packets(s.fmt_ctx)[k].pts, st), frame_id |-> 0]

\* decode_video_until_ts (lines 185-219).  copyOk: the conversion and the
\* allocations of the frame copy succeed.  Result: [s, ret, frame, crash];
\* crash: av_read_frame was handed a null container or a null packet.
decode_video_until_ts(s, target_ts_ms, copyOk) ==
  IF s.video_codec_ctx = 0 \/ ~s.video_frame
    THEN [s |-> s, ret |-> -1, frame |-> NoFrame, crash |-> FALSE]
  ELSE IF s.fmt_ctx = 0 \/ ~s.work_packet
    THEN [s |-> s, ret |-> -1, frame |-> NoFrame, crash |-> TRUE]
  ELSE
    LET k == FirstAtOrAfter(s.fmt_ctx, s.pos, s.video_stream_idx,
                            target_ts_ms)
    IN IF k = 0
         THEN [s |-> [s EXCEPT !.pos = Len(Packets(s.fmt_ctx))],
               ret |-> -1, frame |-> NoFrame, crash |-> FALSE]
       ELSE IF ~copyOk \/ ~s.video_frame_rgba
         THEN [s |-> [s EXCEPT !.pos = k], ret |-> -1, frame |-> NoFrame,
               crash |-> FALSE]
       ELSE [s |-> [s EXCEPT !.pos = k], ret |-> 0,
             frame |-> create_video_frame_copy(s, k), crash |-> FALSE]

\* decode_audio_until_ts (lines 221-255).
decode_audio_until_ts(s, target_ts_ms, copyOk) ==
  IF s.audio_codec_ctx = 0 \/ ~s.audio_frame \/ ~s.swr_ctx
    THEN [s |-> s, ret |-> -1, frame |-> NoFrame, crash |-> FALSE]
  ELSE IF s.fmt_ctx = 0 \/ ~s.work_packet
    THEN [s |-> s, ret |-> -1, frame |-> NoFrame, crash |-> TRUE]
  ELSE
    LET k == FirstAtOrAfter(s.fmt_ctx, s.pos, s.audio_stream_idx,
                            target_ts_ms)
    IN IF k = 0
         THEN [s |-> [s EXCEPT !.pos = Len(Packets(s.fmt_ctx))],
               ret |-> -1, frame |-> NoFrame, crash |-> FALSE]
       ELSE IF ~copyOk
         THEN [s |-> [s EXCEPT !.pos = k], ret |-> -1, frame |-> NoFrame,
               crash |-> FALSE]
       ELSE [s |-> [s EXCEPT !.pos = k], ret |-> 0,
             frame |-> create_audio_frame_copy(s, k), crash |-> FALSE]

(***************************************************************************)
(* Threads, tasks and the state.                                           *)
(***************************************************************************)
Worker == "w"
Callers == {"c1", "c2"}
Threads == Callers \cup {Worker}

TaskTypes ==
  { "TASK_VIDEO_AT_TIMESTAMP", "TASK_VIDEO_AT_INDEX",
    "TASK_AUDIO_AT_TIMESTAMP", "TASK_AUDIO_AT_INDEX", "TASK_VIDEO_RANGE" }

\* AsyncTask (lines 23-49) as the public enqueue functions fill it
\* (lines 844-935); id and cancelled are set by task_queue_add.
NewTask(type, ts, idx, from, to, cb, prog) ==
  [ id |-> 0, type |-> type, timestamp_ms |-> ts, frame_index |-> idx,
    start_index |-> from, end_index |-> to,
    video_callback |-> cb /\ type \notin
        {"TASK_AUDIO_AT_TIMESTAMP", "TASK_AUDIO_AT_INDEX"},
    audio_callback |-> cb /\ type \in
        {"TASK_AUDIO_AT_TIMESTAMP", "TASK_AUDIO_AT_INDEX"},
    progress_callback |-> prog /\ type = "TASK_VIDEO_RANGE",
    cancelled |-> FALSE ]

\* The requests callers make in this model.
TaskInputs ==
  { NewTask("TASK_VIDEO_AT_TIMESTAMP", 100, 0, 0, 0, TRUE, FALSE),
    NewTask("TASK_VIDEO_AT_INDEX", 0, 1, 0, 0, TRUE, FALSE),
    NewTask("TASK_AUDIO_AT_TIMESTAMP", 100, 0, 0, 0, TRUE, FALSE),
    NewTask("TASK_AUDIO_AT_INDEX", 0, 0, 0, 0, TRUE, FALSE),
    NewTask("TASK_VIDEO_RANGE", 0, 0, 0, 1, TRUE, TRUE),
    NewTask("TASK_VIDEO_AT_TIMESTAMP", 100, 0, 0, 0, FALSE, FALSE) }

NoTask == NewTask("TASK_VIDEO_AT_TIMESTAMP", 0, 0, 0, 0, FALSE, FALSE)

\* The worker's locals while it processes a task.
NoCur ==
  [ task |-> NoTask, frame |-> NoFrame, result |-> -1, processed |-> 0,
    current_index |-> 0, fps_num |-> 0, fps_den |-> 0 ]

VARIABLES
  g_state,          \* FFmpegState, the media session
  sessLock,         \* holder of g_state.mutex, or None
  queue,            \* g_task_queue.head .. tail: the queued tasks, in order
  should_exit,      \* g_task_queue.should_exit
  next_request_id,  \* g_task_queue.next_request_id
  queueLock,        \* holder of g_task_queue.mutex, or None
  is_initialized,   \* g_state.is_initialized
  pc,               \* per thread: its place in the public operation it runs
  ret,              \* per thread: where ffmpeg_stop returns to
  wpc,              \* the worker's place in worker_thread_func
  cur,              \* the worker's current task and locals
  calls,            \* public operations begun so far
  status,           \* per request id: none, queued, running, done, discarded
  called,           \* ids of the tasks a callback of which was invoked
  decoded,          \* ids of the tasks whose decode step was entered
  issued,           \* the ids returned by task_queue_add, in lock order
  lateCancel,       \* id of a task cancel was called on after its pop and
                    \* before the end of its decode step, else 0
  cancelHit,        \* ids of the tasks a cancel call found in the queue
  last,             \* SeqSpec: the last operation, its inputs and its result
  seen              \* SeqSpec: the failures reported so far: what failed and
                    \* the status the caller got

vars ==
  << g_state, sessLock, queue, should_exit, next_request_id, queueLock,
     is_initialized, pc, ret, wpc, cur, calls, status, called, decoded,
     issued, lateCancel, cancelHit, last, seen >>

sessVars == << g_state, sessLock >>
queueVars == << queue, should_exit, next_request_id, queueLock >>
workerVars == << wpc, cur >>
histVars ==
  << status, called, decoded, issued, lateCancel, cancelHit >>
seqVars == << last, seen >>

Ids == 1..MaxTasks

\* No operation yet.  pre is the session the operation started from; task,
\* m, fault, range, seekOk and copyOk are its inputs; ret is what it
\* returned (for a single-frame request, the status its callback is handed),
\* frames the frames it produced; cb: the callback was invoked; crash: it
\* dereferenced a null pointer.
NoLast ==
  [ op |-> "none", pre |-> NullState, task |-> NoTask, m |-> 0,
    fault |-> "none", range |-> << 0, 0, 0 >>, seekOk |-> TRUE,
    copyOk |-> TRUE, ret |-> 0, frames |-> << >>, cb |-> FALSE,
    crash |-> FALSE, arrays |-> TRUE, given |-> {}, freed |-> {} ]

\* The state ffmpeg_init leaves (lines 499-511, 259-266): no session, an
\* empty queue, identifiers starting at 1, the worker about to pop.
Init ==
  /\ g_state = NullState
  /\ sessLock = None
  /\ queue = << >>
  /\ should_exit = FALSE
  /\ next_request_id = 1
  /\ queueLock = None
  /\ is_initialized = 1
  /\ pc = [t \in Threads |-> "idle"]
  /\ ret = [t \in Threads |-> "idle"]
  /\ wpc = "pop_lock"
  /\ cur = NoCur
  /\ calls = 0
  /\ status = [i \in Ids |-> "none"]
  /\ called = {}
  /\ decoded = {}
  /\ issued = << >>
  /\ lateCancel = 0
  /\ cancelHit = {}
  /\ last = NoLast
  /\ seen = {}

\* The places of the worker at which a caller's callback is executing.
CallbackPCs == {"cb_frame", "rng_cb_frame", "rng_cb_prog"}

\* A null dereference ended the process.
Crashed == wpc = "crashed" \/ \E t \in Threads : pc[t] = "crashed"

\* The process runs: ffmpeg_release has not completed, nothing crashed.
Alive == is_initialized = 1 /\ ~Crashed

\* ffmpeg_release has been called.
ReleaseStarted ==
  \/ should_exit
  \/ \E t \in Threads :
       ret[t] = "rel_lock" \/ pc[t] \in {"rel_lock", "rel_flag", "rel_join"}

\* Thread t is free to begin a public operation: a caller between two
\* calls, or the worker inside a callback that has no call in progress.
CanCall(t) ==
  /\ Alive
  /\ pc[t] = "idle"
  /\ calls < MaxCalls
  /\ t = Worker => wpc \in CallbackPCs

\* pc with thread t moved to label l.
Goto(t, l) == [pc EXCEPT ![t] = l]

(***************************************************************************)
(* The decode steps of the single-frame tasks: what process_video_task and *)
(* process_audio_task do between locking and unlocking g_state.mutex.      *)
(* Result: [s, ret, frame, crash].                                         *)
(***************************************************************************)
\* A failure path that also closes the session.
FailedAndStopped(s) ==
  [s |-> StopBody(s), ret |-> -1, frame |-> NoFrame, crash |-> FALSE]

Failed(s) == [s |-> s, ret |-> -1, frame |-> NoFrame, crash |-> FALSE]
CrashAt(s) == [s |-> s, ret |-> -1, frame |-> NoFrame, crash |-> TRUE]

\* Seek to the target, then decode up to it (lines 341-343, 356-358).
SeekThenVideo(s, target_ts_ms, seekOk, copyOk) ==
  LET sk == seek_to_frame_before_ts(s, target_ts_ms, seekOk)
  IN IF sk.ret >= 0 THEN decode_video_until_ts(sk.s, target_ts_ms, copyOk)
                    ELSE Failed(sk.s)

\* Lines 381-383, 394-396.
SeekThenAudio(s, target_ts_ms, seekOk, copyOk) ==
  LET sk == seek_to_frame_before_ts(s, target_ts_ms, seekOk)
  IN IF sk.ret >= 0 THEN decode_audio_until_ts(sk.s, target_ts_ms, copyOk)
                    ELSE Failed(sk.s)

\* process_video_task, lines 336-360.
VideoTaskDecode(s, task, seekOk, copyOk) ==
  IF task.type = "TASK_VIDEO_AT_TIMESTAMP"
    THEN SeekThenVideo(s, task.timestamp_ms, seekOk, copyOk)
  ELSE IF s.video_stream_idx < 0 THEN Failed(s)
  \* g_state.fmt_ctx->streams[...] with a null fmt_ctx
  ELSE IF s.fmt_ctx = 0 THEN CrashAt(s)
  ELSE LET st == Stream(s.fmt_ctx, s.video_stream_idx) IN
       IF FpsKnown(st)
         THEN SeekThenVideo(s, IndexToMs(task.frame_index, st), seekOk,
                            copyOk)
         ELSE Failed(s)

\* The first audio stream of media m: the stream an audio codec context
\* allocated for m was set up from.
AudioStreamOf(m) ==
  LET as == { i \in 0..(NbStreams(m) - 1) : Stream(m, i).type = "audio" }
  IN Stream(m, CHOOSE i \in as : \A j \in as : i <= j)

\* samples_per_frame, with the fallback of line 389.
SamplesPerFrame(st) == IF st.frame_size <= 0 THEN 1024 ELSE st.frame_size

\* process_audio_task, lines 376-398.
AudioTaskDecode(s, task, seekOk, copyOk) ==
  IF task.type = "TASK_AUDIO_AT_TIMESTAMP"
    THEN SeekThenAudio(s, task.timestamp_ms, seekOk, copyOk)
  ELSE IF s.audio_codec_ctx = 0 THEN Failed(s)
  ELSE LET st == AudioStreamOf(s.audio_codec_ctx) IN
       \* (samples_per_frame * 1000) / sample_rate divides by zero
       IF st.sample_rate = 0 THEN CrashAt(s)
       ELSE SeekThenAudio(s,
              task.frame_index
                * ((SamplesPerFrame(st) * 1000) \div st.sample_rate),
              seekOk, copyOk)

IsAudioTask(task) ==
  task.type \in {"TASK_AUDIO_AT_TIMESTAMP", "TASK_AUDIO_AT_INDEX"}

\* The test of lines 364 and 402: the callback of a single-frame task is
\* invoked, with the frame (or NULL) and the result.
Delivers(task) ==
  (task.video_callback \/ task.audio_callback) /\ ~task.cancelled

(***************************************************************************)
(* The task queue (lines 259-329).                                         *)
(***************************************************************************)
\* A counter that is read and never advanced.
NextRequestIdStuck(n) == n

\* The identifier counter after one enqueue: next_request_id++ (line 289).
NextRequestId(n) == n + 1

\* A list that links the new task in front of the head.
QueuePrepend(q, task) == << task >> \o q

\* The list after linking the task behind the tail (lines 293-298).
QueueAppend(q, task) == Append(q, task)

\* A signal that wakes nobody.
SignalLost(w) == w

\* pthread_cond_signal(&g_task_queue.cond): a worker waiting in
\* task_queue_pop becomes runnable and has to take the mutex again.
Signal(w) == IF w = "pop_wait" THEN "pop_lock" ELSE w

\* task_queue_add, line 287: take the queue mutex.  The call begins here.
AddLock(t) ==
  /\ CanCall(t)
  /\ next_request_id <= MaxTasks
  /\ queueLock = None
  /\ queueLock' = t
  /\ pc' = Goto(t, "add_body")
  /\ calls' = calls + 1
  /\ UNCHANGED << sessVars, queue, should_exit, next_request_id,
                  is_initialized, ret, workerVars, histVars >>
  /\ UNCHANGED seqVars

\* task_queue_add, lines 289-305, for the task an enqueue function built.
AddBody(t, task) ==
  /\ Alive
  /\ pc[t] = "add_body"
  /\ LET id == next_request_id IN
       /\ next_request_id' = NextRequestId(next_request_id)
       /\ queue' = QueueAppend(queue, [task EXCEPT !.id = id,
                                                   !.cancelled = FALSE])
       /\ status' = [status EXCEPT ![id] = "queued"]
       /\ issued' = Append(issued, id)
  /\ wpc' = Signal(wpc)
  /\ queueLock' = None
  /\ pc' = Goto(t, "idle")
  /\ UNCHANGED << sessVars, should_exit, is_initialized, ret, cur, calls,
                  called, decoded, lateCancel, cancelHit >>
  /\ UNCHANGED seqVars

\* An enqueue function whose malloc fails returns -1 (lines 849-850).
AddAllocFail(t) ==
  /\ CanCall(t)
  /\ calls' = calls + 1
  /\ UNCHANGED << sessVars, queueVars, is_initialized, pc, ret, workerVars,
                  histVars >>
  /\ UNCHANGED seqVars

\* The list after ffmpeg_cancel_request walked it (lines 1060-1067): the
\* first task with the identifier gets its flag set.
\* A cancel that unlinks the task it finds.
CancelUnlinks(q, request_id) ==
  SelectSeq(q, LAMBDA task : task.id /= request_id)

RECURSIVE CancelIn(_, _)
CancelIn(q, request_id) ==
  IF q = << >> THEN q
  ELSE IF Head(q).id = request_id
    THEN << [Head(q) EXCEPT !.cancelled = TRUE] >> \o Tail(q)
    ELSE << Head(q) >> \o CancelIn(Tail(q), request_id)

\* The worker has popped a task and has not finished its (first) decode.
DecodePending ==
  \/ wpc \in {"process", "proc_decode", "rng_init"}
  \/ wpc = "rng_loop" /\ cur.processed = 0

\* ffmpeg_cancel_request, line 1058.
CancelLock(t) ==
  /\ CanCall(t)
  /\ queueLock = None
  /\ queueLock' = t
  /\ pc' = Goto(t, "cancel_body")
  /\ calls' = calls + 1
  /\ UNCHANGED << sessVars, queue, should_exit, next_request_id,
                  is_initialized, ret, workerVars, histVars >>
  /\ UNCHANGED seqVars

\* ffmpeg_cancel_request, lines 1060-1069.
CancelBody(t, request_id) ==
  /\ Alive
  /\ pc[t] = "cancel_body"
  /\ queue' = CancelIn(queue, request_id)
  /\ lateCancel' = IF DecodePending /\ cur.task.id = request_id
                     THEN request_id ELSE lateCancel
  /\ cancelHit' = IF \E k \in 1..Len(queue) : queue[k].id = request_id
                    THEN cancelHit \cup {request_id} ELSE cancelHit
  /\ queueLock' = None
  /\ pc' = Goto(t, "idle")
  /\ UNCHANGED << sessVars, should_exit, next_request_id, is_initialized,
                  ret, workerVars, calls, status, called, decoded, issued >>
  /\ UNCHANGED seqVars

(***************************************************************************)
(* The worker thread (lines 308-495).                                      *)
(***************************************************************************)
\* A pop that gives up only on an empty list.
PopExitsWhenEmpty == should_exit /\ queue = << >>

\* The check of line 315: task_queue_pop gives up and returns NULL.
PopExits == should_exit

\* A pop that returns the task without unlocking.
PopKeepsLock(t) == t

\* The holder of the queue mutex after the unlock of line 326.
PopUnlock(t) == None

\* A process function without the early return.
NeverSkip(task) == FALSE

\* The early return of lines 332, 372 and 410.
SkipCancelled(task) == task.cancelled

\* A single-frame task that calls back before unlocking.
ProcKeepsLock(t) == t

\* The holder of the session mutex after the unlock that follows the decode
\* step of a single-frame task (lines 362, 400).
ProcUnlock(t) == None

\* A range task that calls back with the session mutex held.
RngKeepsLock(t) == t

\* The holder of the session mutex after the unlock that precedes a frame
\* callback of a range task (line 449).
RngUnlock(t) == None

\* A range task that reports its progress before it counts the frame.
CountFrameLate(processed) == processed

\* processed++ (line 452).
CountFrame(processed) == processed + 1

\* total = end_index - start_index + 1 (line 416).
Total(task) == task.end_index - task.start_index + 1

\* worker_thread_func frees the task and loops (lines 491, 473).
TaskDone ==
  /\ wpc' = "pop_lock"
  /\ cur' = NoCur
  /\ status' = [status EXCEPT ![cur.task.id] = "done"]

\* task_queue_pop, line 309, also when woken from the wait of line 312.
WPopLock ==
  /\ Alive
  /\ wpc = "pop_lock"
  /\ queueLock = None
  /\ queueLock' = Worker
  /\ wpc' = "pop_check"
  /\ UNCHANGED << sessVars, queue, should_exit, next_request_id,
                  is_initialized, pc, ret, cur, calls, histVars >>
  /\ UNCHANGED seqVars

\* task_queue_pop, lines 311-326, with the mutex held: wait on the
\* condition (which releases the mutex), give up, or unlink the head.
WPopCheck ==
  /\ Alive
  /\ wpc = "pop_check"
  /\ IF queue = << >> /\ ~should_exit
       THEN /\ wpc' = "pop_wait"
            /\ queueLock' = None
            /\ UNCHANGED << queue, cur, status >>
     ELSE IF PopExits
       THEN /\ wpc' = "exited"
            /\ queueLock' = None
            /\ UNCHANGED << queue, cur, status >>
     ELSE /\ wpc' = "process"
          /\ cur' = [NoCur EXCEPT !.task = Head(queue)]
          /\ queue' = Tail(queue)
          /\ queueLock' = PopUnlock(Worker)
          /\ status' = [status EXCEPT ![Head(queue).id] = "running"]
  /\ UNCHANGED << sessVars, should_exit, next_request_id, is_initialized,
                  pc, ret, calls, called, decoded, issued,
                  lateCancel, cancelHit >>
  /\ UNCHANGED seqVars

\* pthread_cond_wait may return without a signal.
WSpuriousWake ==
  /\ Alive
  /\ wpc = "pop_wait"
  /\ wpc' = "pop_lock"
  /\ UNCHANGED << sessVars, queueVars, is_initialized, pc, ret, cur, calls,
                  histVars >>
  /\ UNCHANGED seqVars

\* The dispatch of lines 477-489 and the head of the process function
\* (lines 332-334, 372-374, 410-412): return at once for a cancelled task,
\* else take the session mutex.
WProcess ==
  /\ Alive
  /\ wpc = "process"
  /\ IF SkipCancelled(cur.task)
       THEN /\ TaskDone
            /\ UNCHANGED << sessLock, decoded >>
       ELSE /\ sessLock = None
            /\ sessLock' = Worker
            /\ wpc' = IF cur.task.type = "TASK_VIDEO_RANGE"
                        THEN "rng_init" ELSE "proc_decode"
            /\ decoded' = decoded \cup {cur.task.id}
            /\ UNCHANGED << cur, status >>
  /\ UNCHANGED << g_state, queueVars, is_initialized, pc, ret, calls,
                  called, issued, lateCancel, cancelHit >>
  /\ UNCHANGED seqVars

\* process_video_task lines 336-362, process_audio_task lines 376-400: the
\* decode step and the unlock.
WDecode(seekOk, copyOk) ==
  /\ Alive
  /\ wpc = "proc_decode"
  /\ LET d == IF IsAudioTask(cur.task)
                THEN AudioTaskDecode(g_state, cur.task, seekOk, copyOk)
                ELSE VideoTaskDecode(g_state, cur.task, seekOk, copyOk)
     IN /\ g_state' = d.s
        /\ IF d.crash
             THEN wpc' = "crashed" /\ UNCHANGED << cur, sessLock >>
             ELSE /\ wpc' = "proc_deliver"
                  /\ cur' = [cur EXCEPT !.frame = d.frame, !.result = d.ret]
                  /\ sessLock' = ProcUnlock(Worker)
  /\ UNCHANGED << queueVars, is_initialized, pc, ret, calls, histVars >>
  /\ UNCHANGED seqVars

\* Lines 364-368, 402-406: invoke the callback, or free the frame.
WDeliver ==
  /\ Alive
  /\ wpc = "proc_deliver"
  /\ IF Delivers(cur.task)
       THEN /\ wpc' = "cb_frame"
            /\ called' = called \cup {cur.task.id}
            /\ UNCHANGED << cur, status >>
       ELSE /\ TaskDone
            /\ UNCHANGED called
  /\ UNCHANGED << sessVars, queueVars, is_initialized, pc, ret, calls,
                  decoded, issued, lateCancel, cancelHit >>
  /\ UNCHANGED seqVars

\* The callback of a single-frame task returns.
WCallbackReturn ==
  /\ Alive
  /\ wpc = "cb_frame"
  /\ pc[Worker] = "idle"
  /\ TaskDone
  /\ UNCHANGED << sessVars, queueVars, is_initialized, pc, ret, calls,
                  called, decoded, issued, lateCancel, cancelHit >>
  /\ UNCHANGED seqVars

\* process_video_range_task lines 414-440, with the session mutex held.
WRngInit(seekOk) ==
  /\ Alive
  /\ wpc = "rng_init"
  /\ IF g_state.video_stream_idx >= 0 /\ g_state.fmt_ctx = 0
       THEN \* g_state.fmt_ctx->streams[...] with a null fmt_ctx
            /\ wpc' = "crashed"
            /\ UNCHANGED << g_state, sessLock, cur, status >>
     ELSE IF \/ g_state.video_stream_idx < 0
             \/ ~FpsKnown(Stream(g_state.fmt_ctx, g_state.video_stream_idx))
       THEN /\ sessLock' = None
            /\ TaskDone
            /\ UNCHANGED g_state
     ELSE LET st == Stream(g_state.fmt_ctx, g_state.video_stream_idx)
              sk == seek_to_frame_before_ts(g_state,
                      IndexToMs(cur.task.start_index, st), seekOk)
          IN /\ g_state' = sk.s
             /\ IF sk.ret < 0
                  THEN sessLock' = None /\ TaskDone
                  ELSE /\ wpc' = "rng_loop"
                       /\ cur' = [cur EXCEPT !.processed = 0,
                                    !.current_index = cur.task.start_index,
                                    !.fps_num = st.fr_num,
                                    !.fps_den = st.fr_den]
                       /\ UNCHANGED << sessLock, status >>
  /\ UNCHANGED << queueVars, is_initialized, pc, ret, calls, called,
                  decoded, issued, lateCancel, cancelHit >>
  /\ UNCHANGED seqVars

\* process_video_range_task lines 442-467, with the session mutex held:
\* one pass of the loop up to the frame callback, or the way out.
WRngLoop(copyOk) ==
  /\ Alive
  /\ wpc = "rng_loop"
  /\ IF cur.current_index <= cur.task.end_index /\ ~cur.task.cancelled
       THEN LET fps == [fr_num |-> cur.fps_num, fr_den |-> cur.fps_den]
                d == decode_video_until_ts(g_state,
                       IndexToMs(cur.current_index, fps), copyOk)
            IN /\ g_state' = d.s
               /\ IF d.crash
                    THEN /\ wpc' = "crashed"
                         /\ UNCHANGED << sessLock, cur, status, called >>
                  ELSE IF /\ d.ret >= 0
                          /\ d.frame /= NoFrame
                          /\ cur.task.video_callback
                          /\ ~cur.task.cancelled
                    THEN /\ sessLock' = RngUnlock(Worker)
                         /\ wpc' = "rng_cb_frame"
                         /\ cur' = [cur EXCEPT !.frame = d.frame,
                                               !.result = d.ret]
                         /\ called' = called \cup {cur.task.id}
                         /\ UNCHANGED status
                  ELSE /\ sessLock' = None
                       /\ TaskDone
                       /\ UNCHANGED called
       ELSE /\ sessLock' = None
            /\ TaskDone
            /\ UNCHANGED << g_state, called >>
  /\ UNCHANGED << queueVars, is_initialized, pc, ret, calls, decoded,
                  issued, lateCancel, cancelHit >>
  /\ UNCHANGED seqVars

\* The frame callback of a range task returns (line 450).
WRngFrameReturn ==
  /\ Alive
  /\ wpc = "rng_cb_frame"
  /\ pc[Worker] = "idle"
  /\ wpc' = "rng_relock"
  /\ UNCHANGED << sessVars, queueVars, is_initialized, pc, ret, cur, calls,
                  histVars >>
  /\ UNCHANGED seqVars

\* Lines 451-455 and 464: lock again, count the frame, then either unlock
\* for the progress callback or go round the loop with the mutex held.
WRngAfterFrame ==
  /\ Alive
  /\ wpc = "rng_relock"
  /\ sessLock = None
  /\ IF cur.task.progress_callback /\ ~cur.task.cancelled
       THEN /\ wpc' = "rng_cb_prog"
            /\ cur' = [cur EXCEPT !.processed = CountFrame(cur.processed)]
            /\ UNCHANGED sessLock
       ELSE /\ wpc' = "rng_loop"
            /\ cur' = [cur EXCEPT !.processed = CountFrame(cur.processed),
                                  !.current_index = cur.current_index + 1]
            /\ sessLock' = Worker
  /\ UNCHANGED << g_state, queueVars, is_initialized, pc, ret, calls,
                  histVars >>
  /\ UNCHANGED seqVars

\* The progress callback returns (line 456).
WRngProgReturn ==
  /\ Alive
  /\ wpc = "rng_cb_prog"
  /\ pc[Worker] = "idle"
  /\ wpc' = "rng_relock2"
  /\ UNCHANGED << sessVars, queueVars, is_initialized, pc, ret, cur, calls,
                  histVars >>
  /\ UNCHANGED seqVars

\* Lines 457 and 464: lock again and go round the loop.
WRngRelock ==
  /\ Alive
  /\ wpc = "rng_relock2"
  /\ sessLock = None
  /\ sessLock' = Worker
  /\ wpc' = "rng_loop"
  /\ cur' = [cur EXCEPT !.current_index = cur.current_index + 1]
  /\ UNCHANGED << g_state, queueVars, is_initialized, pc, ret, calls,
                  histVars >>
  /\ UNCHANGED seqVars

(***************************************************************************)
(* The session operations (lines 513-827).                                 *)
(***************************************************************************)
\* ffmpeg_stop, line 762: called by a thread as a public operation, or from
\* ffmpeg_open_media and ffmpeg_release, which set ret.
StopLock(t) ==
  /\ IF pc[t] = "stop_lock"
       THEN Alive /\ UNCHANGED calls
       ELSE CanCall(t) /\ calls' = calls + 1
  /\ sessLock = None
  /\ sessLock' = t
  /\ pc' = Goto(t, "stop_body")
  /\ UNCHANGED << g_state, queueVars, is_initialized, ret, workerVars,
                  histVars >>
  /\ UNCHANGED seqVars

\* ffmpeg_stop, lines 764-826.
StopBodyStep(t) ==
  /\ Alive
  /\ pc[t] = "stop_body"
  /\ g_state' = StopBody(g_state)
  /\ sessLock' = None
  /\ pc' = Goto(t, ret[t])
  /\ ret' = [ret EXCEPT ![t] = "idle"]
  /\ UNCHANGED << queueVars, is_initialized, workerVars, calls, histVars >>
  /\ UNCHANGED seqVars

\* ffmpeg_open_media, lines 516-523: lock; with a session open, unlock and
\* call ffmpeg_stop, to lock again afterwards.
OpenLock(t) ==
  /\ CanCall(t)
  /\ sessLock = None
  /\ calls' = calls + 1
  /\ IF g_state.fmt_ctx /= 0
       THEN /\ pc' = Goto(t, "stop_lock")
            /\ ret' = [ret EXCEPT ![t] = "open_relock"]
            /\ UNCHANGED sessLock
       ELSE /\ pc' = Goto(t, "open_body")
            /\ sessLock' = t
            /\ UNCHANGED ret
  /\ UNCHANGED << g_state, queueVars, is_initialized, workerVars, histVars >>
  /\ UNCHANGED seqVars

\* ffmpeg_open_media, line 522.
OpenRelock(t) ==
  /\ Alive
  /\ pc[t] = "open_relock"
  /\ sessLock = None
  /\ sessLock' = t
  /\ pc' = Goto(t, "open_body")
  /\ UNCHANGED << g_state, queueVars, is_initialized, ret, workerVars,
                  calls, histVars >>
  /\ UNCHANGED seqVars

\* ffmpeg_open_media, lines 525-724, for media m and the fault of this run.
OpenBodyStep(t, m, fault) ==
  /\ Alive
  /\ pc[t] = "open_body"
  /\ LET r == OpenBody(g_state, m, fault)
     IN /\ g_state' = r.s
        /\ pc' = Goto(t, IF r.stop THEN "stop_lock" ELSE "idle")
  /\ sessLock' = None
  /\ UNCHANGED << queueVars, is_initialized, ret, workerVars, calls,
                  histVars >>
  /\ UNCHANGED seqVars

\* ffmpeg_get_media_info, line 731.
InfoLock(t) ==
  /\ CanCall(t)
  /\ sessLock = None
  /\ sessLock' = t
  /\ pc' = Goto(t, "info_body")
  /\ calls' = calls + 1
  /\ UNCHANGED << g_state, queueVars, is_initialized, ret, workerVars,
                  histVars >>
  /\ UNCHANGED seqVars

\* ffmpeg_get_media_info, lines 733-758: reads only.  With a video codec
\* context and no video stream index, line 740 reads streams[-1].
InfoBody(t) ==
  /\ Alive
  /\ pc[t] = "info_body"
  /\ IF /\ g_state.fmt_ctx /= 0
        /\ g_state.video_codec_ctx /= 0
        /\ g_state.video_stream_idx < 0
       THEN pc' = Goto(t, "crashed") /\ UNCHANGED sessLock
       ELSE pc' = Goto(t, "idle") /\ sessLock' = None
  /\ UNCHANGED << g_state, queueVars, is_initialized, ret, workerVars,
                  calls, histVars >>
  /\ UNCHANGED seqVars

(***************************************************************************)
(* The synchronous range fetches (lines 938-1035).                         *)
(***************************************************************************)
\* A loop that seeks to every target before it decodes.
RECURSIVE RangeIndexLoopReseek(_, _, _, _, _, _)
RangeIndexLoopReseek(s, current_index, end_index, st, copyOk, frames) ==
  IF current_index > end_index
    THEN [s |-> s, frames |-> frames, crash |-> FALSE]
  ELSE LET target == IndexToMs(current_index, st)
           d == decode_video_until_ts(
                  seek_to_frame_before_ts(s, target, TRUE).s, target, copyOk)
       IN IF d.crash THEN [s |-> d.s, frames |-> frames, crash |-> TRUE]
          ELSE IF d.ret >= 0 /\ d.frame /= NoFrame
            THEN RangeIndexLoopReseek(d.s, current_index + 1, end_index, st,
                                      copyOk, Append(frames, d.frame))
          ELSE [s |-> d.s, frames |-> frames, crash |-> FALSE]

\* The loop of lines 967-986 from current_index on; frames is the batch
\* filled so far.  Result: [s, frames, crash].
RECURSIVE RangeIndexLoop(_, _, _, _, _, _)
RangeIndexLoop(s, current_index, end_index, st, copyOk, frames) ==
  IF current_index > end_index
    THEN [s |-> s, frames |-> frames, crash |-> FALSE]
  ELSE LET d == decode_video_until_ts(s, IndexToMs(current_index, st),
                                      copyOk)
       IN IF d.crash THEN [s |-> d.s, frames |-> frames, crash |-> TRUE]
          ELSE IF d.ret >= 0 /\ d.frame /= NoFrame
            THEN RangeIndexLoop(d.s, current_index + 1, end_index, st,
                                copyOk, Append(frames, d.frame))
          ELSE [s |-> d.s, frames |-> frames, crash |-> FALSE]

\* ffmpeg_get_video_frames_range_by_index, lines 947-991, with the mutex
\* held.  Result: [s, ret, frames, crash]; ret is the count or -1.
RangeByIndex(s, start_index, end_index, seekOk, copyOk) ==
  \* line 948 reads g_state.fmt_ctx->streams[g_state.video_stream_idx]
  IF s.fmt_ctx = 0 \/ s.video_stream_idx < 0
    THEN [s |-> s, ret |-> -1, frames |-> << >>, crash |-> TRUE]
  ELSE LET st == Stream(s.fmt_ctx, s.video_stream_idx) IN
    IF ~FpsKnown(st)
      THEN [s |-> s, ret |-> -1, frames |-> << >>, crash |-> FALSE]
    ELSE LET sk == seek_to_frame_before_ts(s, IndexToMs(start_index, st),
                                           seekOk)
         IN IF sk.ret < 0
              THEN [s |-> sk.s, ret |-> -1, frames |-> << >>,
                    crash |-> FALSE]
            ELSE LET r == RangeIndexLoop(sk.s, start_index, end_index, st,
                                         copyOk, << >>)
                 IN [s |-> r.s, ret |-> Len(r.frames), frames |-> r.frames,
                     crash |-> r.crash]

\* The loop of lines 1012-1029 from current_ts on.
RECURSIVE RangeTsLoop(_, _, _, _, _, _)
RangeTsLoop(s, current_ts, end_ms, step_ms, copyOk, frames) ==
  IF current_ts > end_ms
    THEN [s |-> s, frames |-> frames, crash |-> FALSE]
  ELSE LET d == decode_video_until_ts(s, current_ts, copyOk)
       IN IF d.crash THEN [s |-> d.s, frames |-> frames, crash |-> TRUE]
          ELSE IF d.ret >= 0 /\ d.frame /= NoFrame
            THEN RangeTsLoop(d.s, current_ts + step_ms, end_ms, step_ms,
                             copyOk, Append(frames, d.frame))
          ELSE [s |-> d.s, frames |-> frames, crash |-> FALSE]

\* ffmpeg_get_video_frames_range_by_timestamp, lines 1004-1034, with the
\* mutex held.
RangeByTimestamp(s, start_ms, end_ms, step_ms, seekOk, copyOk) ==
  LET sk == seek_to_frame_before_ts(s, start_ms, seekOk)
  IN IF sk.ret < 0
       THEN [s |-> sk.s, ret |-> -1, frames |-> << >>, crash |-> FALSE]
     ELSE LET r == RangeTsLoop(sk.s, start_ms, end_ms, step_ms, copyOk,
                               << >>)
          IN [s |-> r.s, ret |-> Len(r.frames), frames |-> r.frames,
              crash |-> r.crash]

\* The index ranges and the timestamp ranges (start, end, step) callers
\* ask for in this model.
IndexRanges == { << 0, 1 >> }
TsRanges == { << 0, 100, 100 >> }

\* A synchronous range fetch is called; kind is "ridx" (by index) or "rts"
\* (by timestamp).
RangeCall(t, kind) ==
  /\ CanCall(t)
  /\ pc' = Goto(t, kind \o "_check")
  /\ calls' = calls + 1
  /\ UNCHANGED << sessVars, queueVars, is_initialized, ret, workerVars,
                  histVars >>
  /\ UNCHANGED seqVars

\* Lines 943 and 1000: the test of g_state.fmt_ctx and
\* g_state.video_stream_idx that comes before pthread_mutex_lock.
RangeCheck(t, kind) ==
  /\ Alive
  /\ pc[t] = kind \o "_check"
  /\ pc' = Goto(t, IF g_state.fmt_ctx = 0 \/ g_state.video_stream_idx < 0
                     THEN "idle" ELSE kind \o "_lock")
  /\ UNCHANGED << sessVars, queueVars, is_initialized, ret, workerVars,
                  calls, histVars >>
  /\ UNCHANGED seqVars

\* Lines 945 and 1002.
RangeLock(t, kind) ==
  /\ Alive
  /\ pc[t] = kind \o "_lock"
  /\ sessLock = None
  /\ sessLock' = t
  /\ pc' = Goto(t, kind \o "_body")
  /\ UNCHANGED << g_state, queueVars, is_initialized, ret, workerVars,
                  calls, histVars >>
  /\ UNCHANGED seqVars

\* ffmpeg_get_video_frames_range_by_index, lines 947-991.
RangeIndexBody(t, range, seekOk, copyOk) ==
  /\ Alive
  /\ pc[t] = "ridx_body"
  /\ LET r == RangeByIndex(g_state, range[1], range[2], seekOk, copyOk)
     IN /\ g_state' = r.s
        /\ IF r.crash
             THEN pc' = Goto(t, "crashed") /\ UNCHANGED sessLock
             ELSE pc' = Goto(t, "idle") /\ sessLock' = None
  /\ UNCHANGED << queueVars, is_initialized, ret, workerVars, calls,
                  histVars >>
  /\ UNCHANGED seqVars

\* ffmpeg_get_video_frames_range_by_timestamp, lines 1004-1034.
RangeTsBody(t, range, seekOk, copyOk) ==
  /\ Alive
  /\ pc[t] = "rts_body"
  /\ LET r == RangeByTimestamp(g_state, range[1], range[2], range[3],
                               seekOk, copyOk)
     IN /\ g_state' = r.s
        /\ IF r.crash
             THEN pc' = Goto(t, "crashed") /\ UNCHANGED sessLock
             ELSE pc' = Goto(t, "idle") /\ sessLock' = None
  /\ UNCHANGED << queueVars, is_initialized, ret, workerVars, calls,
                  histVars >>
  /\ UNCHANGED seqVars

(***************************************************************************)
(* ffmpeg_release (lines 1072-1088), called once, by a caller thread.      *)
(***************************************************************************)
\* Line 1073: the call begins with ffmpeg_stop.
ReleaseCall(t) ==
  /\ CanCall(t)
  /\ t \in Callers
  /\ ~ReleaseStarted
  /\ pc' = Goto(t, "stop_lock")
  /\ ret' = [ret EXCEPT ![t] = "rel_lock"]
  /\ calls' = calls + 1
  /\ UNCHANGED << sessVars, queueVars, is_initialized, workerVars,
                  histVars >>
  /\ UNCHANGED seqVars

\* Line 1076.
ReleaseLock(t) ==
  /\ Alive
  /\ pc[t] = "rel_lock"
  /\ queueLock = None
  /\ queueLock' = t
  /\ pc' = Goto(t, "rel_flag")
  /\ UNCHANGED << sessVars, queue, should_exit, next_request_id,
                  is_initialized, ret, workerVars, calls, histVars >>
  /\ UNCHANGED seqVars

\* Lines 1077-1079: set the stop flag, signal, unlock.
ReleaseFlag(t) ==
  /\ Alive
  /\ pc[t] = "rel_flag"
  /\ should_exit' = TRUE
  /\ wpc' = Signal(wpc)
  /\ queueLock' = None
  /\ pc' = Goto(t, "rel_join")
  /\ UNCHANGED << sessVars, queue, next_request_id, is_initialized, ret,
                  cur, calls, histVars >>
  /\ UNCHANGED seqVars

\* Lines 1081-1087: pthread_join returns once the worker has exited; then
\* task_queue_destroy frees what is still queued and the mutexes go.
ReleaseJoin(t) ==
  /\ Alive
  /\ pc[t] = "rel_join"
  /\ wpc = "exited"
  /\ queueLock = None
  /\ queue' = << >>
  /\ status' = [i \in Ids |->
                  IF \E k \in 1..Len(queue) : queue[k].id = i
                    THEN "discarded" ELSE status[i]]
  /\ is_initialized' = 0
  /\ pc' = Goto(t, "idle")
  /\ UNCHANGED << sessVars, should_exit, next_request_id, queueLock, ret,
                  workerVars, calls, called, decoded, issued,
                  lateCancel, cancelHit >>
  /\ UNCHANGED seqVars

(***************************************************************************)
(* The specification.                                                      *)
(***************************************************************************)
Next ==
  \/ \E t \in Threads : AddLock(t)
  \/ \E t \in Threads, task \in TaskInputs : AddBody(t, task)
  \/ \E t \in Threads : AddAllocFail(t)
  \/ \E t \in Threads : CancelLock(t)
  \/ \E t \in Threads, id \in Ids : CancelBody(t, id)
  \/ WPopLock
  \/ WPopCheck
  \/ WSpuriousWake
  \/ WProcess
  \/ \E seekOk \in BOOLEAN, copyOk \in BOOLEAN : WDecode(seekOk, copyOk)
  \/ WDeliver
  \/ WCallbackReturn
  \/ \E seekOk \in BOOLEAN : WRngInit(seekOk)
  \/ \E copyOk \in BOOLEAN : WRngLoop(copyOk)
  \/ WRngFrameReturn
  \/ WRngAfterFrame
  \/ WRngProgReturn
  \/ WRngRelock
  \/ \E t \in Threads : StopLock(t)
  \/ \E t \in Threads : StopBodyStep(t)
  \/ \E t \in Threads : OpenLock(t)
  \/ \E t \in Threads : OpenRelock(t)
  \/ \E t \in Threads, m \in Medias, fault \in OpenFaults :
       OpenBodyStep(t, m, fault)
  \/ \E t \in Threads : InfoLock(t)
  \/ \E t \in Threads : InfoBody(t)
  \/ \E t \in Threads, kind \in {"ridx", "rts"} : RangeCall(t, kind)
  \/ \E t \in Threads, kind \in {"ridx", "rts"} : RangeCheck(t, kind)
  \/ \E t \in Threads, kind \in {"ridx", "rts"} : RangeLock(t, kind)
  \/ \E t \in Threads, range \in IndexRanges, seekOk \in BOOLEAN,
        copyOk \in BOOLEAN : RangeIndexBody(t, range, seekOk, copyOk)
  \/ \E t \in Threads, range \in TsRanges, seekOk \in BOOLEAN,
        copyOk \in BOOLEAN : RangeTsBody(t, range, seekOk, copyOk)
  \/ \E t \in Callers : ReleaseCall(t)
  \/ \E t \in Callers : ReleaseLock(t)
  \/ \E t \in Callers : ReleaseFlag(t)
  \/ \E t \in Callers : ReleaseJoin(t)

Spec == Init /\ [][Next]_vars

(***************************************************************************)
(* LiveSpec: Spec under fair scheduling.  A thread that has begun an       *)
(* operation goes on with it, the worker goes on with its loop and every   *)
(* callback returns; no client is obliged to begin a call, and the         *)
(* condition wait is not obliged to wake without a signal.                 *)
(***************************************************************************)
\* A step of worker_thread_func (lines 470-495) other than a spurious wake.
WorkerStep ==
  \/ WPopLock
  \/ WPopCheck
  \/ WProcess
  \/ \E seekOk \in BOOLEAN, copyOk \in BOOLEAN : WDecode(seekOk, copyOk)
  \/ WDeliver
  \/ WCallbackReturn
  \/ \E seekOk \in BOOLEAN : WRngInit(seekOk)
  \/ \E copyOk \in BOOLEAN : WRngLoop(copyOk)
  \/ WRngFrameReturn
  \/ WRngAfterFrame
  \/ WRngProgReturn
  \/ WRngRelock

\* A step by which thread t goes on with the public operation it is in.
ThreadStep(t) ==
  \/ \E task \in TaskInputs : AddBody(t, task)
  \/ \E id \in Ids : CancelBody(t, id)
  \/ pc[t] = "stop_lock" /\ StopLock(t)
  \/ StopBodyStep(t)
  \/ OpenRelock(t)
  \/ \E m \in Medias, fault \in OpenFaults : OpenBodyStep(t, m, fault)
  \/ InfoBody(t)
  \/ \E kind \in {"ridx", "rts"} : RangeCheck(t, kind)
  \/ \E kind \in {"ridx", "rts"} : RangeLock(t, kind)
  \/ \E range \in IndexRanges, seekOk \in BOOLEAN, copyOk \in BOOLEAN :
       RangeIndexBody(t, range, seekOk, copyOk)
  \/ \E range \in TsRanges, seekOk \in BOOLEAN, copyOk \in BOOLEAN :
       RangeTsBody(t, range, seekOk, copyOk)
  \/ ReleaseFlag(t)
  \/ ReleaseJoin(t)

\* The worker may wake spuriously and retake the queue mutex any number of
\* times, so the release that waits for that mutex (line 1076) is given
\* strong fairness: a mutex freed again and again is eventually acquired.
LiveSpec ==
  /\ Init /\ [][Next]_vars
  /\ WF_vars(WorkerStep)
  /\ \A t \in Threads : WF_vars(ThreadStep(t))
  /\ \A t \in Callers : SF_vars(ReleaseLock(t))

(***************************************************************************)
(* SeqSpec: one client that makes one call at a time and lets each request *)
(* come to its end before the next call.  Each action is one whole public  *)
(* operation, or the worker's processing of one single-frame task, run     *)
(* with no other thread in between; last records it.                       *)
(***************************************************************************)
\* Operations made in one run of SeqSpec.
MaxOps == 3

\* The target times (ms) and the indices the client asks for.
SeqTargets == {0, 50, 250}
SeqIndices == {0, 1, 3}

SeqTaskInputs ==
  { NewTask(type, ts, 0, 0, 0, TRUE, FALSE) :
      type \in {"TASK_VIDEO_AT_TIMESTAMP", "TASK_AUDIO_AT_TIMESTAMP"},
      ts \in SeqTargets }
  \cup
  { NewTask(type, 0, idx, 0, 0, TRUE, FALSE) :
      type \in {"TASK_VIDEO_AT_INDEX", "TASK_AUDIO_AT_INDEX"},
      idx \in SeqIndices }
  \cup
  { NewTask("TASK_VIDEO_AT_TIMESTAMP", 100, 0, 0, 0, FALSE, FALSE) }

\* Index ranges << start, end >> and timestamp ranges << start, end, step >>.
SeqIndexRanges == { << 0, 1 >>, << 0, 2 >>, << 1, 3 >> }
SeqTsRanges ==
  { << 0, 200, 100 >>, << 50, 250, 100 >>, << 0, 700, 300 >>,
    << 0, 200, 0 >> }

\* The client may make its next call.
SeqCanCall == ~last.crash /\ calls < MaxOps

\* What an action of SeqSpec leaves alone.
SeqFrame ==
  /\ calls' = calls + 1
  /\ UNCHANGED << sessLock, queueVars, is_initialized, pc, ret, workerVars,
                  histVars >>

\* ffmpeg_open_media (lines 513-725) as one call: the teardown of an open
\* session, steps 1 to 4, and the ffmpeg_stop after a failed step 4.
ffmpeg_open_media(m, fault) ==
  /\ SeqCanCall
  /\ LET s0 == IF g_state.fmt_ctx /= 0 THEN StopBody(g_state) ELSE g_state
         r  == OpenBody(s0, m, fault)
     IN /\ g_state' = IF r.stop THEN StopBody(r.s) ELSE r.s
        /\ last' = [NoLast EXCEPT !.op = "open", !.pre = g_state, !.m = m,
                                  !.fault = fault, !.ret = r.ret]
        /\ seen' = IF r.ret < 0
                     THEN seen \cup {[cond |-> fault, ret |-> r.ret]}
                     ELSE seen
  /\ SeqFrame

\* ffmpeg_stop (lines 761-827) as one call.
ffmpeg_stop ==
  /\ SeqCanCall
  /\ g_state' = StopBody(g_state)
  /\ last' = [NoLast EXCEPT !.op = "stop", !.pre = g_state]
  /\ UNCHANGED seen
  /\ SeqFrame

\* The failure of a single-frame request that no backend fault caused:
\* whether the stream type asked for was absent from the open session or
\* had no frame to give, and the status handed to the callback.
Failure(s, task, d) ==
  [ cond |-> IF (IF IsAudioTask(task) THEN s.audio_stream_idx
                                      ELSE s.video_stream_idx) < 0
               THEN "absent_stream" ELSE "no_frame",
    ret |-> d.ret ]

\* The end of a single-frame task (lines 364-368, 402-406) for the frame
\* copies frames its decode step made: they go to the callback, or they are
\* released.  Result: the positions in frames handed over and released.
HandOver(task, frames) ==
  IF Delivers(task)
    THEN [given |-> DOMAIN frames, freed |-> {}]
    ELSE [given |-> {}, freed |-> DOMAIN frames]

\* last after the worker processed single-frame task task from session s
\* with the outcome d of its decode step.
TaskRecord(s, task, seekOk, copyOk, d) ==
  LET frames == IF d.frame = NoFrame THEN << >> ELSE << d.frame >>
      h == HandOver(task, frames)
  IN [NoLast EXCEPT !.op = "task", !.pre = s, !.task = task,
                    !.seekOk = seekOk, !.copyOk = copyOk, !.ret = d.ret,
                    !.frames = frames,
                    !.cb = Delivers(task) /\ ~d.crash, !.crash = d.crash,
                    !.given = IF d.crash THEN {} ELSE h.given,
                    !.freed = IF d.crash THEN {} ELSE h.freed]

\* The single-frame tasks as the worker processes them from lock to
\* callback: process_video_task (lines 331-369) and process_audio_task
\* (lines 371-407).
process_single_task(task, seekOk, copyOk) ==
  /\ SeqCanCall
  /\ ~SkipCancelled(task)
  /\ LET d == IF IsAudioTask(task)
                THEN AudioTaskDecode(g_state, task, seekOk, copyOk)
                ELSE VideoTaskDecode(g_state, task, seekOk, copyOk)
     IN /\ g_state' = d.s
        /\ last' = TaskRecord(g_state, task, seekOk, copyOk, d)
        /\ seen' = IF /\ d.ret < 0 /\ ~d.crash /\ seekOk /\ copyOk
                      /\ g_state.fmt_ctx /= 0 /\ g_state.work_packet
                     THEN seen \cup {Failure(g_state, task, d)}
                     ELSE seen
  /\ SeqFrame

\* The stores of lines 974-976 and 1017-1019 for the frame copies frames
\* the loop made and counted: each goes into its slot of
\* out_batch->video_frames when the batch has that array (arrays), and
\* nowhere when the array pointer is null.  Result: the positions stored.
BatchSlots(arrays, frames) == IF arrays THEN DOMAIN frames ELSE {}

\* last after a synchronous range fetch with result r into a batch whose
\* video_frames array is there (arrays) or null.
RangeRecord(op, s, range, seekOk, copyOk, arrays, r) ==
  [NoLast EXCEPT !.op = op, !.pre = s, !.range = range,
                 !.seekOk = seekOk, !.copyOk = copyOk, !.ret = r.ret,
                 !.frames = r.frames, !.crash = r.crash,
                 !.arrays = arrays,
                 !.given = BatchSlots(arrays, r.frames)]

\* The return of lines 943 and 1000.
RangeRefused(s) ==
  [s |-> s, ret |-> -1, frames |-> << >>, crash |-> FALSE]

\* ffmpeg_get_video_frames_range_by_index (lines 938-992) as one call.
ffmpeg_get_video_frames_range_by_index(range, seekOk, copyOk, arrays) ==
  /\ SeqCanCall
  /\ LET r == IF g_state.fmt_ctx = 0 \/ g_state.video_stream_idx < 0
                THEN RangeRefused(g_state)
                ELSE RangeByIndex(g_state, range[1], range[2], seekOk,
                                  copyOk)
     IN /\ g_state' = r.s
        /\ last' = RangeRecord("ridx", g_state, << range[1], range[2], 0 >>,
                               seekOk, copyOk, arrays, r)
  /\ UNCHANGED seen
  /\ SeqFrame

\* ffmpeg_get_video_frames_range_by_timestamp (lines 994-1035) as one call.
ffmpeg_get_video_frames_range_by_timestamp(range, seekOk, copyOk, arrays) ==
  /\ SeqCanCall
  /\ LET r == IF g_state.fmt_ctx = 0 \/ g_state.video_stream_idx < 0
                THEN RangeRefused(g_state)
                ELSE RangeByTimestamp(g_state, range[1], range[2], range[3],
                                      seekOk, copyOk)
     IN /\ g_state' = r.s
        /\ last' = RangeRecord("rts", g_state, range, seekOk, copyOk,
                               arrays, r)
  /\ UNCHANGED seen
  /\ SeqFrame

SeqNext ==
  \/ \E m \in SeqMedias, fault \in OpenFaults : ffmpeg_open_media(m, fault)
  \/ ffmpeg_stop
  \/ \E task \in SeqTaskInputs, seekOk \in BOOLEAN, copyOk \in BOOLEAN :
       process_single_task(task, seekOk, copyOk)
  \/ \E range \in SeqIndexRanges, seekOk \in BOOLEAN, copyOk \in BOOLEAN,
        arrays \in BOOLEAN :
       ffmpeg_get_video_frames_range_by_index(range, seekOk, copyOk, arrays)
  \/ \E range \in SeqTsRanges, seekOk \in BOOLEAN, copyOk \in BOOLEAN,
        arrays \in BOOLEAN :
       ffmpeg_get_video_frames_range_by_timestamp(range, seekOk, copyOk,
                                                  arrays)

SeqSpec == Init /\ [][SeqNext]_vars

(***************************************************************************)
(* Properties.                                                             *)
(***************************************************************************)
Started(i) == status[i] \in {"running", "done"}

\* C1: tasks run in enqueue order, one at a time: when a request is being
\* processed or has been processed, every request enqueued before it has
\* been processed to its end (all its callbacks have returned and the
\* worker has freed it).
C1_FifoOneAtATime ==
  \A i, j \in Ids : (i < j /\ Started(j)) => status[i] = "done"

\* The callback of the second request executes after the first request,
\* whose callback was invoked, came to its end.
C1_Witness ==
  /\ status[1] = "done" /\ 1 \in called
  /\ status[2] = "running" /\ wpc = "cb_frame" /\ cur.task.id = 2

\* The current step of thread t reads or writes fields of g_state.
AccessesSession(t) ==
  \/ pc[t] \in { "ridx_check", "rts_check", "ridx_body", "rts_body",
                 "open_body", "stop_body", "info_body" }
  \/ t = Worker /\ pc[t] = "idle"
       /\ wpc \in {"proc_decode", "rng_init", "rng_loop"}

\* C2: session fields are read or written only by a thread that holds
\* g_state.mutex.
C2_SessionAccessUnderMutex ==
  \A t \in Threads : AccessesSession(t) => sessLock = t

\* C3: a task that a cancel call found in the queue never has its decode
\* step entered nor a callback invoked.
C3_CancelledInQueueSkipped ==
  \A i \in cancelHit : i \notin decoded /\ i \notin called

\* A task cancelled in the queue was popped and came to its end.
C3_Witness ==
  \E i \in cancelHit : status[i] = "done"

\* C4: a task that cancel is called on after its pop and before the end of
\* its decode step does not have its callback invoked.
C4_LateCancelSuppressesCallback ==
  lateCancel /= 0 => lateCancel \notin called

\* C5: once the stop flag is set no queued task is popped any more; the
\* tasks in the queue then, and the tasks release discards, have had no
\* decode step and no callback.
C5_ReleaseDiscardsQueued ==
  /\ [][should_exit =>
          \A i \in Ids : status[i] = "queued" =>
                           status'[i] \in {"queued", "discarded"}]_vars
  /\ [](should_exit =>
          \A k \in 1..Len(queue) :
             queue[k].id \notin called /\ queue[k].id \notin decoded)
  /\ [](\A i \in Ids : status[i] = "discarded" =>
                         i \notin called /\ i \notin decoded)

\* Release completed and discarded a queued task while another task had
\* been processed.
C5_Witness ==
  /\ is_initialized = 0
  /\ \E i, j \in Ids : status[i] = "done" /\ status[j] = "discarded"

\* C6: no thread holds the session mutex and the queue mutex at once.
C6_NeverBothMutexes ==
  \A t \in Threads : ~(sessLock = t /\ queueLock = t)

\* A callback on the worker thread holds the queue mutex (it enqueues or
\* cancels) while a caller thread holds the session mutex.
C6_Witness ==
  /\ wpc \in CallbackPCs
  /\ queueLock = Worker
  /\ sessLock \in Callers

\* The places of a thread inside a session operation, between its lock and
\* its unlock of g_state.mutex (a thread that crashed did so there).
SessionBodyPCs ==
  {"stop_body", "open_body", "info_body", "ridx_body", "rts_body", "crashed"}

\* C7: while a callback executes, the worker thread holds the session
\* mutex only if the callback itself took it by calling a session
\* operation: the worker enters every callback with the mutex released.
C7_CallbackWithoutSessionMutex ==
  (wpc \in CallbackPCs /\ pc[Worker] \notin SessionBodyPCs)
    => sessLock /= Worker

\* The progress callback of a range task is inside ffmpeg_stop, holding
\* the session mutex it was able to take.
C7_Witness ==
  /\ wpc = "rng_cb_prog"
  /\ pc[Worker] = "stop_body"
  /\ sessLock = Worker

\* C8: the identifiers task_queue_add returns are 1, 2, 3, ... in the order
\* the enqueues take the queue mutex.
C8_IdsIncreaseFromOne ==
  /\ \A k \in 1..Len(issued) : issued[k] = k
  /\ next_request_id = Len(issued) + 1

\* Two enqueues returned, one of them made while the other's thread was
\* inside a public operation of its own.
C8_Witness ==
  /\ Len(issued) >= 2
  /\ \E t \in Threads : pc[t] /= "idle"

\* The step that ends a critical section of the queue mutex.
QueueCriticalStep ==
  \/ \E t \in Threads, task \in TaskInputs : AddBody(t, task)
  \/ \E t \in Threads, id \in Ids : CancelBody(t, id)
  \/ \E t \in Callers : ReleaseFlag(t)
  \/ WPopCheck

\* C9: the holder of the queue mutex is never in a decode step, in a
\* callback body or waiting for the session mutex: whoever holds the queue
\* mutex can take its next step, which needs no other lock, so a thread
\* in an enqueue call is never kept waiting by decode work.
C9_QueueMutexNeverAcrossDecode ==
  (Alive /\ queueLock /= None) =>
     /\ sessLock /= queueLock
     /\ queueLock = Worker =>
          (wpc = "pop_check" \/ pc[Worker] \in {"add_body", "cancel_body"})
     /\ ENABLED QueueCriticalStep

\* A caller is inside task_queue_add while the worker holds the session
\* mutex in the decode step of a task.
C9_Witness ==
  /\ \E t \in Callers : pc[t] = "add_body" /\ queueLock = t
  /\ wpc = "proc_decode"
  /\ sessLock = Worker

\* C10: an open call establishes the new session only over a session that
\* has been torn down: at line 526, with the mutex held, the container
\* handle is null.
C10_OpenTearsDownFirst ==
  \A t \in Threads : pc[t] = "open_body" => g_state.fmt_ctx = 0

(***************************************************************************)
(* Properties of the single operations, checked under SeqSpec.             *)
(***************************************************************************)
IsTimestampTask(task) ==
  task.type \in {"TASK_VIDEO_AT_TIMESTAMP", "TASK_AUDIO_AT_TIMESTAMP"}

\* The stream index a task reads frames of, in session s.
StreamOfTask(s, task) ==
  IF IsAudioTask(task) THEN s.audio_stream_idx ELSE s.video_stream_idx

\* The frame time in ms of packet k of media m.
PacketMs(m, k) == PtsMs(Packets(m)[k].pts, Stream(m, Packets(m)[k].si))

\* C11: a request by timestamp that succeeds delivers the first frame of its
\* stream, in container order from the position the backward seek reached,
\* whose time in ms is at or after the target: every frame of the stream
\* before it is below the target, the read position is just behind it, and
\* no frame a range fetch by timestamp returns is below its target.
C11_FirstFrameAtOrAfterTarget ==
  /\ (last.op = "task" /\ IsTimestampTask(last.task) /\ last.ret = 0) =>
       LET m == last.pre.fmt_ctx
           si == StreamOfTask(last.pre, last.task)
           target == last.task.timestamp_ms
           from == SeekPos(m, target)
       IN /\ Len(last.frames) = 1
          /\ last.frames[1].pts_ms >= target
          /\ g_state.pos \in (from + 1)..Len(Packets(m))
          /\ Packets(m)[g_state.pos].si = si
          /\ PacketMs(m, g_state.pos) = last.frames[1].pts_ms
          /\ \A j \in (from + 1)..(g_state.pos - 1) :
               Packets(m)[j].si = si => PacketMs(m, j) < target
  /\ last.op = "rts" =>
       \A i \in 1..Len(last.frames) :
          last.frames[i].pts_ms >= last.range[1] + (i - 1) * last.range[3]

\* A video request for 50 ms on media 1 had the frame at 0 ms decoded and
\* discarded and the frame at 100 ms delivered.
C11_Witness ==
  /\ last.op = "task" /\ last.ret = 0 /\ last.cb
  /\ last.task.type = "TASK_VIDEO_AT_TIMESTAMP"
  /\ last.task.timestamp_ms = 50
  /\ last.pre.fmt_ctx = 1
  /\ last.frames = << [pts_ms |-> 100, frame_id |-> 1] >>

\* The packets of stream si of media m.
PacketsOf(m, si) == { k \in 1..Len(Packets(m)) : Packets(m)[k].si = si }

\* Session s has the stream the task asks for open.
HasStream(s, task) == s.fmt_ctx /= 0 /\ StreamOfTask(s, task) >= 0

\* C12: a request by timestamp whose target is after the time of the last
\* frame of its stream fails: the status is negative, no frame is produced,
\* the callback is invoked with them, and once the seek succeeded the
\* container has been read to its end.
C12_TargetAfterLastFrameFails ==
  ( /\ last.op = "task" /\ IsTimestampTask(last.task)
    /\ HasStream(last.pre, last.task)
    /\ \A k \in PacketsOf(last.pre.fmt_ctx,
                          StreamOfTask(last.pre, last.task)) :
         PacketMs(last.pre.fmt_ctx, k) < last.task.timestamp_ms )
  => /\ ~last.crash
     /\ last.ret < 0
     /\ last.frames = << >>
     /\ last.task.video_callback \/ last.task.audio_callback => last.cb
     /\ last.seekOk => g_state.pos = Len(Packets(last.pre.fmt_ctx))

\* A video request for 250 ms on media 1, whose last video frame is at
\* 200 ms, read all five packets and called back with a failure.
C12_Witness ==
  /\ last.op = "task" /\ last.task.type = "TASK_VIDEO_AT_TIMESTAMP"
  /\ last.task.timestamp_ms = 250
  /\ last.pre.fmt_ctx = 1 /\ last.pre.video_stream_idx = 0
  /\ last.seekOk /\ last.cb /\ last.ret = -1
  /\ g_state.pos = 5

\* C13: a single-frame request for a stream type the open media does not
\* have fails without touching the container: the session, its read
\* position included, is as it was before the request.
C13_AbsentStreamLeavesContainer ==
  ( /\ last.op = "task"
    /\ last.pre.fmt_ctx /= 0
    /\ StreamOfTask(last.pre, last.task) < 0 )
  => /\ last.ret < 0
     /\ last.frames = << >>
     /\ g_state = last.pre

\* C14: the status a request on an absent stream type yields is never the
\* status a request yields whose stream exists and has no frame at or after
\* the target.
C14_NoStreamDistinctFromNotFound ==
  \A x, y \in seen :
     (x.cond = "absent_stream" /\ y.cond = "no_frame") => x.ret /= y.ret

\* The failure class of a fault of open: the container could not be opened,
\* its streams could not be probed, or an allocation that open cannot do
\* without failed.
OpenFailureClass(fault) ==
  IF fault = "open_input" THEN "open"
  ELSE IF fault = "find_stream_info" THEN "probe"
  ELSE IF fault \in {"video_alloc", "audio_alloc", "packet_alloc"}
    THEN "alloc"
  ELSE "none"

\* C15: open failures of two different classes never return the same code.
C15_OpenFailureCodesDistinct ==
  \A x, y \in seen :
     ( /\ OpenFailureClass(x.cond) /= "none"
       /\ OpenFailureClass(y.cond) /= "none"
       /\ OpenFailureClass(x.cond) /= OpenFailureClass(y.cond) )
     => x.ret /= y.ret

\* The state of one stream type in session s.
VideoPart(s) ==
  << s.video_stream_idx, s.video_codec_ctx, s.video_frame,
     s.video_frame_rgba, s.video_buffer, s.sws_ctx >>
AudioPart(s) ==
  << s.audio_stream_idx, s.audio_codec_ctx, s.audio_frame,
     s.audio_frame_converted, s.swr_ctx >>

\* The faults of open that hit the setup of one stream type.
VideoFaults == {"video_alloc", "video_setup"}
AudioFaults == {"audio_alloc", "audio_setup"}

\* C16: a failure while open sets up one stream type rolls back that type
\* only: the type that failed is left with no stream index and no handles,
\* the other type is set up as in an open without the failure, the
\* container stays open and open goes on to succeed.
C16_StreamFailureRollsBackThatStreamOnly ==
  (last.op = "open" /\ last.fault \in VideoFaults \cup AudioFaults) =>
    LET good == OpenBody(NullState, last.m, "none").s
        hasVideo == VideoPart(good) /= VideoPart(NullState)
        hasAudio == AudioPart(good) /= AudioPart(NullState)
    IN /\ g_state.fmt_ctx = last.m
       /\ last.ret = 0
       /\ g_state.work_packet
       /\ (last.fault \in VideoFaults /\ hasVideo) =>
            /\ VideoPart(g_state) = VideoPart(NullState)
            /\ AudioPart(g_state) = AudioPart(good)
       /\ (last.fault \in AudioFaults /\ hasAudio) =>
            /\ AudioPart(g_state) = AudioPart(NullState)
            /\ VideoPart(g_state) = VideoPart(good)

(***************************************************************************)
(* Properties of the asynchronous tasks, checked under Spec.               *)
(***************************************************************************)
\* C17: in a range task over [start, end] the frame callbacks come in index
\* order, the k-th for index start + k - 1 and with a frame and status 0;
\* after the k-th frame callback returned, and only then, the progress
\* callback is invoked once, with (k, total); the next frame callback comes
\* only after it returned; and a task whose loop ran past end, every target
\* having been found, has made exactly total frame callbacks.
C17_RangeCallbacksInOrder ==
  /\ [](wpc = "rng_cb_frame" =>
          /\ cur.current_index = cur.task.start_index + cur.processed
          /\ cur.current_index <= cur.task.end_index
          /\ cur.result = 0 /\ cur.frame /= NoFrame)
  /\ [](wpc = "rng_cb_prog" =>
          /\ cur.processed = cur.current_index - cur.task.start_index + 1
          /\ cur.processed \in 1..Total(cur.task))
  /\ [][wpc' /= wpc =>
          /\ wpc' = "rng_cb_frame" => wpc = "rng_loop"
          /\ wpc' = "rng_cb_prog" => wpc = "rng_relock"
          /\ wpc = "rng_cb_frame" => wpc' = "rng_relock"
          /\ (wpc = "rng_relock" /\ cur.task.progress_callback) =>
               wpc' = "rng_cb_prog" /\ cur' = [cur EXCEPT !.processed = @ + 1]
          /\ wpc = "rng_cb_prog" => wpc' = "rng_relock2"
          /\ wpc = "rng_relock2" =>
               /\ wpc' = "rng_loop"
               /\ cur' = [cur EXCEPT !.current_index = @ + 1]
          /\ ( /\ wpc = "rng_loop" /\ wpc' = "pop_lock"
               /\ cur.current_index > cur.task.end_index ) =>
               cur.processed = Total(cur.task)]_vars

\* The second and last progress callback of the range task over [0, 1] is
\* executing, with (2, 2).
C17_Witness ==
  /\ wpc = "rng_cb_prog"
  /\ cur.task.start_index = 0 /\ cur.task.end_index = 1
  /\ cur.processed = 2
  /\ cur.frame.pts_ms = 100

(***************************************************************************)
(* Properties of the synchronous range fetches, checked under SeqSpec.     *)
(***************************************************************************)
\* The video stream of the session a range fetch started from.
RangeStream == Stream(last.pre.fmt_ctx, last.pre.video_stream_idx)

\* The number of passes the loop condition of the last range fetch allows
\* (lines 967, 1012) and the target (ms) of its i-th pass.  With a step of 0
\* current_ts never passes end_ms: the condition allows any number of
\* passes, of which no more than one per packet can find a frame.
RangeCount ==
  IF last.op = "ridx" THEN last.range[2] - last.range[1] + 1
  ELSE IF last.range[3] = 0 THEN Len(Packets(last.pre.fmt_ctx)) + 1
  ELSE (last.range[2] - last.range[1]) \div last.range[3] + 1
RangeTarget(i) ==
  IF last.op = "ridx" THEN IndexToMs(last.range[1] + i - 1, RangeStream)
  ELSE last.range[1] + (i - 1) * last.range[3]

\* The packet the i-th frame of the last range fetch was decoded from; for
\* i = 0, the position the seek to the range start reached.
RangePacket(i) ==
  IF i = 0 THEN SeekPos(last.pre.fmt_ctx, RangeTarget(1))
  ELSE CHOOSE k \in PacketsOf(last.pre.fmt_ctx, last.pre.video_stream_idx) :
         PacketMs(last.pre.fmt_ctx, k) = last.frames[i].pts_ms

\* A video packet behind position p with a frame at or after target i.
NextHit(p, i) ==
  { k \in PacketsOf(last.pre.fmt_ctx, last.pre.video_stream_idx) :
      k > p /\ PacketMs(last.pre.fmt_ctx, k) >= RangeTarget(i) }

C19_RangeByIndexMonotoneAndFull ==
  ( /\ last.op = "ridx" /\ last.ret >= 0 /\ ~last.crash
    /\ last.seekOk /\ last.copyOk )
  => /\ \A i, j \in 1..Len(last.frames) :
          i < j => last.frames[i].pts_ms <= last.frames[j].pts_ms
     /\ Len(last.frames) <= RangeCount
     /\ Len(last.frames) < RangeCount =>
          Cardinality({ k \in PacketsOf(last.pre.fmt_ctx,
                                        last.pre.video_stream_idx) :
                          PacketMs(last.pre.fmt_ctx, k) >= RangeTarget(1) })
            < RangeCount

\* A task has a callback to report to.
HasCallback(task) == task.video_callback \/ task.audio_callback

\* The worker is inside a process function.
InProcess ==
  wpc \notin {"pop_lock", "pop_check", "pop_wait", "exited", "crashed"}

\* C20: when the process function of a task that has a callback and is not
\* cancelled returns, a callback of the task has been invoked: a task that
\* failed has reported the failure.
C20_FailureDeliveredToCallback ==
  [][( /\ InProcess /\ wpc' = "pop_lock"
       /\ HasCallback(cur.task) /\ ~cur.task.cancelled )
     => cur.task.id \in called]_vars

\* The rate an index-addressed task translates its index with is unknown or
\* non-positive in session s: the frame rate of the video stream, the
\* sample rate of the audio codec context.
IsIndexTask(task) ==
  task.type \in {"TASK_VIDEO_AT_INDEX", "TASK_AUDIO_AT_INDEX"}

RateUnusable(s, task) ==
  IF IsAudioTask(task)
    THEN s.audio_codec_ctx /= 0
         /\ AudioStreamOf(s.audio_codec_ctx).sample_rate <= 0
    ELSE s.video_stream_idx >= 0
         /\ ~FpsKnown(Stream(s.fmt_ctx, s.video_stream_idx))

TotalFrames(m, si) == Cardinality(PacketsOf(m, si))

\* The video stream si of media m has a constant integer frame rate and
\* monotonic timestamps: avg_frame_rate is fps/1 and each frame follows the
\* one before it by 1000/fps ms.
ConstantIntegerFps(m, si) ==
  LET st == Stream(m, si) IN
  /\ st.type = "video" /\ FpsKnown(st) /\ st.fr_den = 1
  /\ \A k, j \in PacketsOf(m, si) :
       (k < j /\ \A h \in PacketsOf(m, si) : ~(k < h /\ h < j))
         => PacketMs(m, j) - PacketMs(m, k) = 1000 \div st.fr_num

\* C22: on a session whose video stream has a constant integer frame rate
\* and monotonic timestamps, a video-by-index request for an index i with
\* 0 <= i < totalFrames, whose seek and copy succeed, delivers a frame whose
\* frame_id differs from i by at most 1.
C22_FrameIdWithinOneOfIndex ==
  ( /\ last.op = "task"
    /\ last.task.type = "TASK_VIDEO_AT_INDEX"
    /\ last.pre.fmt_ctx /= 0
    /\ last.pre.video_stream_idx >= 0
    /\ last.pre.video_codec_ctx /= 0
    /\ last.pre.video_frame /\ last.pre.work_packet
    /\ ConstantIntegerFps(last.pre.fmt_ctx, last.pre.video_stream_idx)
    /\ last.task.frame_index >= 0
    /\ last.task.frame_index
         < TotalFrames(last.pre.fmt_ctx, last.pre.video_stream_idx)
    /\ last.seekOk /\ last.copyOk )
  => ( /\ last.ret >= 0
       /\ Len(last.frames) = 1
       /\ last.frames[1].frame_id - last.task.frame_index \in {-1, 0, 1} )

\* Thread t takes the step that runs the body of ffmpeg_cancel_request.
CancelStep(t) == pc[t] = "cancel_body" /\ pc'[t] /= "cancel_body"

\* C23: the body of cancel returns normally and changes nothing but the
\* cancelled flag of the queued task with the identifier: the queue keeps its
\* length and order, every entry is as it was except that the flag of at most
\* one entry, one the cancel found in the queue, is now set; when the
\* identifier is not in the queue the queue is as it was.  The session, the
\* stop flag, the identifier counter and the worker's task are untouched.
C23_CancelOnlySetsFlag ==
  [][ \A t \in Threads :
        CancelStep(t) =>
          /\ pc'[t] = "idle"
          /\ Len(queue') = Len(queue)
          /\ \A k \in 1..Len(queue) :
               \/ queue'[k] = queue[k]
               \/ /\ queue'[k] = [queue[k] EXCEPT !.cancelled = TRUE]
                  /\ queue[k].id \in cancelHit'
                  /\ \A j \in 1..Len(queue) : j /= k => queue'[j] = queue[j]
          /\ (cancelHit' = cancelHit /\ \A k \in 1..Len(queue) :
                                          queue[k].id \notin cancelHit)
               => queue' = queue
          /\ UNCHANGED << sessVars, should_exit, next_request_id,
                          is_initialized, workerVars >>
    ]_vars

\* A cancel has found its task behind another one: the queue holds two
\* tasks, the second cancelled and still in its place, the first untouched.
C23_Witness ==
  /\ Len(queue) = 2
  /\ queue[2].cancelled /\ queue[2].id \in cancelHit
  /\ ~queue[1].cancelled

\* The target time in ms a single-frame task decodes up to in session s,
\* which has the task's stream open with a usable rate (lines 341, 355, 381,
\* 391-393).
TaskTarget(s, task) ==
  IF IsTimestampTask(task) THEN task.timestamp_ms
  ELSE IF IsAudioTask(task)
    THEN LET st == AudioStreamOf(s.audio_codec_ctx) IN
         task.frame_index * ((SamplesPerFrame(st) * 1000) \div st.sample_rate)
    ELSE IndexToMs(task.frame_index, Stream(s.fmt_ctx, s.video_stream_idx))

\* The target of the task exists in the media session s has open: the
\* task's stream is open, its rate is usable when the task is by index, and
\* a frame of the stream is at or after the target time.
TargetExists(s, task) ==
  /\ HasStream(s, task)
  /\ IsIndexTask(task) => ~RateUnusable(s, task)
  /\ \E k \in PacketsOf(s.fmt_ctx, StreamOfTask(s, task)) :
       PacketMs(s.fmt_ctx, k) >= TaskTarget(s, task)

\* A single-frame request on an open session came back with a failure.
FailedRequest ==
  /\ last.op = "task" /\ last.ret < 0 /\ ~last.crash
  /\ last.pre.fmt_ctx /= 0

\* C24: a single-frame request that fails on an open session leaves every
\* field of the session but the read position as it was; and the request
\* the worker processes right after it, when its target exists in the media
\* and no backend step fails, succeeds with a frame.
C24_FailureKeepsSessionUsable ==
  /\ [](FailedRequest => g_state = [last.pre EXCEPT !.pos = g_state.pos])
  /\ [][ ( /\ FailedRequest
           /\ last'.op = "task" /\ calls' = calls + 1
           /\ last'.seekOk /\ last'.copyOk
           /\ TargetExists(g_state, last'.task) )
         => ( /\ ~last'.crash
              /\ last'.ret = 0
              /\ Len(last'.frames) = 1
              /\ last'.frames[1].pts_ms >= TaskTarget(g_state, last'.task) )
     ]_vars

\* Three operations: media 1 was opened, a request whose target is past the
\* last frame read the container to its end and failed, and the video
\* request for 0 ms that followed it succeeded.
C24_Witness ==
  /\ calls = 3
  /\ \E f \in seen : f.cond = "no_frame"
  /\ last.op = "task" /\ last.ret = 0
  /\ last.task.type = "TASK_VIDEO_AT_TIMESTAMP"
  /\ last.task.timestamp_ms = 0
  /\ last.pre.fmt_ctx = 1
  /\ last.pre.pos = Len(Packets(1))
  /\ last.frames = << [pts_ms |-> 0, frame_id |-> 0] >>

\* C25: under fair scheduling, as long as no null dereference has ended the
\* process, every task in the queue is eventually dequeued by the worker or
\* discarded by release, and a release that has been called eventually
\* returns, the worker joined.
C25_NoLostWakeup ==
  /\ \A i \in Ids :
       (status[i] = "queued")
         ~> (status[i] \in {"running", "done", "discarded"} \/ Crashed)
  /\ ReleaseStarted ~> ((is_initialized = 0 /\ wpc = "exited") \/ Crashed)

\* Every task that was enqueued has been dequeued and processed, and the
\* release called after them has joined the worker and returned.
C25_Witness ==
  /\ is_initialized = 0 /\ wpc = "exited" /\ should_exit
  /\ \A i \in Ids : status[i] = "done"

\* Every sub-resource of session s is null and both stream indices are -1.
NoSubResource(s) ==
  /\ s.video_codec_ctx = 0 /\ s.audio_codec_ctx = 0
  /\ ~s.sws_ctx /\ ~s.swr_ctx
  /\ ~s.video_frame /\ ~s.video_frame_rgba
  /\ ~s.audio_frame /\ ~s.audio_frame_converted
  /\ ~s.video_buffer /\ ~s.work_packet
  /\ s.video_stream_idx = -1 /\ s.audio_stream_idx = -1

\* C26: whenever no thread holds the session mutex and the container handle
\* is null, every sub-resource handle is null and both stream indices
\* are -1.
C26_ClosedSessionHasNoSubResource ==
  (sessLock = None /\ g_state.fmt_ctx = 0) => NoSubResource(g_state)

\* The worker is inside a range task between two passes of its loop: it has
\* handed a frame to the callback, has not yet locked the session again for
\* the next pass, and the range has a further index to decode.
BetweenRangeFrames ==
  /\ wpc \in {"rng_cb_frame", "rng_relock", "rng_cb_prog", "rng_relock2"}
  /\ cur.current_index < cur.task.end_index
  /\ ~cur.task.cancelled

\* C27: the frames of one async range task are an uninterrupted sequential
\* decode: between a frame of the task and the next pass of its loop no step
\* of any thread replaces the container or moves its read position, and each
\* frame the task delivers after its first has a presentation time above
\* that of the frame before it.
C27_RangeTaskDecodeUninterrupted ==
  /\ [][ BetweenRangeFrames =>
           /\ g_state'.fmt_ctx = g_state.fmt_ctx
           /\ g_state'.pos = g_state.pos ]_vars
  /\ [][ (wpc = "rng_loop" /\ wpc' = "rng_cb_frame" /\ cur.processed >= 1)
           => cur'.frame.pts_ms > cur.frame.pts_ms ]_vars

\* C28: every frame copy a decode step made ends in exactly one way: it is
\* handed to one recipient (the callback, or its slot of the batch's frame
\* array) or it is released; none is both, and none is left with neither.
C28_FrameGivenOrFreedOnce ==
  (last.op \in {"task", "ridx", "rts"} /\ ~last.crash) =>
    /\ last.given \cap last.freed = {}
    /\ last.given \cup last.freed = DOMAIN last.frames

\* The number of distinct target timestamps start, start + step, ... up to
\* end of a range by timestamp.
DistinctTargets(start_ms, end_ms, step_ms) ==
  IF step_ms > 0 THEN (end_ms - start_ms) \div step_ms + 1 ELSE 1

\* C29: a range fetch by timestamp with start_ms <= end_ms and step_ms >= 0
\* stores, and returns as its count, no more frames than the request has
\* distinct target timestamps.
C29_CountWithinDistinctTargets ==
  ( /\ last.op = "rts" /\ ~last.crash
    /\ last.range[1] <= last.range[2] /\ last.range[3] >= 0 )
  => LET n == DistinctTargets(last.range[1], last.range[2], last.range[3])
     IN /\ last.ret <= n
        /\ Len(last.frames) <= n
        /\ Cardinality(last.given) <= n

====
